---------------------------- MODULE Spec2Model ----------------------------
(***************************************************************************)
(* A model of the FedNLP experiment glue:                                  *)
(*   - SpanExtractionTrainer.train_model / evaluate                        *)
(*       (training/se_transformer_trainer.py)                              *)
(*   - the entry scripts' add_args, load_data, preprocess_data and main    *)
(*       (experiments/...)                                                 *)
(* Each component has its own variables, initial condition, next-state     *)
(* relation and specification; the variables of the other components stay  *)
(* at their idle values.                                                   *)
(***************************************************************************)
EXTENDS Integers, Sequences, FiniteSets, TLC

VARIABLES
    \* ---- SpanExtractionTrainer.train_model ----
    pc,                            \* position inside train_model
    calls,                         \* number of train_model calls made on this trainer
    args_custom_parameter_groups,  \* args.custom_parameter_groups (list of dicts)
    args_custom_layer_parameters,  \* args.custom_layer_parameters (list of dicts)
    args_weight_decay,             \* args.weight_decay
    args_train_custom_parameters_only,
    args_gradient_accumulation_steps,
    args_num_train_epochs,
    args_evaluate_during_training,
    args_evaluate_during_training_steps,
    args_warmup_ratio,             \* args.warmup_ratio, in percent
    args_warmup_steps,             \* args.warmup_steps (written by build_optimizer)
    train_dl_len,                  \* len(self.train_dl)
    optimizer_grouped_parameters,  \* the local list train_model computes
    custom_parameter_names,        \* the local set train_model computes
    first_groups,                  \* the groups the first train_model call computed
    optimizer,                     \* the optimizer object of the current call
    scheduler,                     \* the scheduler object of the current call
    n_build,                       \* build_optimizer calls in the current train_model call
    epoch, batch_idx, global_step,
    accum,                         \* backward() calls whose gradient is in .grad now
    batch_events,                  \* calls made so far for the current batch (to line 205)
    forward_calls, backward_calls,
    opt_steps, sched_steps,
    eval_log,                      \* global_step at each eval_model call
    error,                         \* exception that ended the current call ("none")
    \* ---- SpanExtractionTrainer.evaluate ----
    ev_pc,                         \* position inside evaluate
    model_type,                    \* args.model_type
    output_dir,                    \* the output_dir argument
    test_dl,                       \* the batches of self.test_dl: their example indices
    batch_no,                      \* the batch of test_dl the loop of line 259 is at
    example_i,                     \* position of the loop of line 293 in the batch
    eval_inputs,                   \* the keys of the inputs of the last model call
    model_calls,                   \* model(**inputs) calls made by evaluate
    all_results,                   \* the list all_results
    nb_eval_steps,
    writer_calls,                  \* the calls of write_predictions(_extended)
    ev_error,                      \* exception that ended evaluate ("none")
    \* ---- the entry scripts (one process running one of them) ----
    entry,                         \* which script the process runs
    m_step,                        \* index of the next statement group of the script
    m_status,                      \* "running", "raised" or "done"
    m_done,                        \* the statement groups completed so far
    process_id,                    \* as returned by FedML_init (-1 before)
    args_dataset,                  \* args.dataset
    args_model,                    \* args.model (BiLSTM script)
    args_client_num_in_total,      \* args.client_num_in_total
    partition_n_clients,           \* attributes["n_clients"] of the partition file
    data_loader_module,            \* the loader module load_data selected
    loaders_built,                 \* ClientDataLoader objects constructed
    train_data_local_num_dict,
    train_data_local_dict,
    test_data_local_dict,
    wandb_inited,
    fedavg_calls,                  \* calls of FedML_FedAvg_distributed
    m_error,                       \* the exception that ended the script ("none")
    \* ---- preprocess_data (main_fedavg.py) ----
    pp_pc,                         \* position inside preprocess_data
    raw,                           \* the dataset as load_data returned it
    train_data_global,             \* list of batches, each a dict with "X" and "Y"
    test_data_global,
    pp_train_data_local_dict,      \* train_data_local_dict: client index -> batches
    pp_test_data_local_dict,       \* test_data_local_dict: client index -> batches
    freq_vocab,
    source_vocab,
    vocab_x,                       \* the list x given to build_vocab (<<>> before the call)
    built_vocab,                   \* whether build_vocab has been called
    cli_max_seq_len,               \* --max_seq_len as given on the command line
    args_max_seq_len,              \* args.max_seq_len (written at line 268)
    args_do_remove_low_freq_words,
    args_do_remove_stop_words,
    args_embedding_name,
    pp_result,                     \* the four new data sets preprocess_data returns
    pp_error,                      \* the exception that ended preprocess_data ("none")
    \* ---- add_args / parse_args of the four entry points ----
    script,                        \* the entry point whose parser reads the command line
    argv,                          \* the values the command line gives the boolean option
    parse_pc,                      \* position: "parsing", "parsed", "used"
    argv_idx,                      \* next occurrence of the option parse_args reads
    args_flag,                     \* args.do_lower_case / args.do_remove_stop_words
    used_flag                      \* the value main hands on, once it has

trainVars == <<pc, calls, args_custom_parameter_groups, args_custom_layer_parameters,
               args_weight_decay, args_train_custom_parameters_only,
               args_gradient_accumulation_steps, args_num_train_epochs,
               args_evaluate_during_training, args_evaluate_during_training_steps,
               args_warmup_ratio, args_warmup_steps, train_dl_len,
               optimizer_grouped_parameters, custom_parameter_names,
               first_groups, optimizer, scheduler, n_build, epoch, batch_idx,
               global_step, accum, batch_events, forward_calls, backward_calls,
               opt_steps, sched_steps, eval_log, error>>

evalVars == <<ev_pc, model_type, output_dir, test_dl, batch_no, example_i, eval_inputs,
              model_calls, all_results, nb_eval_steps, writer_calls, ev_error>>

mainVars == <<entry, m_step, m_status, m_done, process_id, args_dataset, args_model,
              args_client_num_in_total, partition_n_clients, data_loader_module,
              loaders_built, train_data_local_num_dict, train_data_local_dict,
              test_data_local_dict, wandb_inited, fedavg_calls, m_error>>

preVars == <<pp_pc, raw, train_data_global, test_data_global, pp_train_data_local_dict,
             pp_test_data_local_dict, freq_vocab, source_vocab, vocab_x, built_vocab,
             cli_max_seq_len,
             args_max_seq_len, args_do_remove_low_freq_words, args_do_remove_stop_words,
             args_embedding_name, pp_result, pp_error>>

argsVars == <<script, argv, parse_pc, argv_idx, args_flag, used_flag>>

vars == <<trainVars, evalVars, mainVars, preVars, argsVars>>

otherThanTrain == <<evalVars, mainVars, preVars, argsVars>>

otherThanEval == <<trainVars, mainVars, preVars, argsVars>>

otherThanMain == <<trainVars, evalVars, preVars, argsVars>>

otherThanPre == <<trainVars, evalVars, mainVars, argsVars>>

otherThanArgs == <<trainVars, evalVars, mainVars, preVars>>

-----------------------------------------------------------------------------
(* Bounds of the model *)

MaxBatches == 3          \* len(train_dl) ranges over 0 .. MaxBatches
MaxAccum == 2            \* gradient_accumulation_steps ranges over 1 .. MaxAccum
MaxEpochs == 2           \* num_train_epochs ranges over 0 .. MaxEpochs
MaxEvalEvery == 2        \* evaluate_during_training_steps ranges over 0 .. MaxEvalEvery
MaxWeightDecay == 1      \* args.weight_decay ranges over 0 .. MaxWeightDecay (abstract units)
MaxCalls == 2            \* train_model calls on one trainer
MaxEvalBatches == 3      \* test_dl has 0 .. MaxEvalBatches batches
MaxEvalBatchSize == 2    \* a batch of test_dl has 1 .. MaxEvalBatchSize examples
MaxClients == 2          \* n_clients and client_num_in_total range up to MaxClients
MaxProcessId == 1        \* process ids 0 (server) .. MaxProcessId
MaxTrainSentences == 2   \* the global train data holds 0 .. MaxTrainSentences sentences
MaxTestSentences == 1    \* the global test data holds 0 .. MaxTestSentences sentences
MaxLowFreq == 2          \* --do_remove_low_freq_words ranges over 0 .. MaxLowFreq
PreClients == 2          \* clients of the partition preprocess_data is given
PreBatchSize == 2        \* args.batch_size in preprocess_data's input
MaxArgv == 2             \* the command line gives the boolean option 0 .. MaxArgv times

-----------------------------------------------------------------------------
(* The values a component's variables keep while another one is examined *)

TrainOff ==
    /\ pc = "off"
    /\ calls = 0
    /\ args_custom_parameter_groups = <<>>
    /\ args_custom_layer_parameters = <<>>
    /\ args_weight_decay = 0
    /\ args_train_custom_parameters_only = FALSE
    /\ args_gradient_accumulation_steps = 1
    /\ args_num_train_epochs = 0
    /\ args_evaluate_during_training = FALSE
    /\ args_evaluate_during_training_steps = 0
    /\ args_warmup_ratio = 0
    /\ args_warmup_steps = 0
    /\ train_dl_len = 0
    /\ optimizer_grouped_parameters = <<>>
    /\ custom_parameter_names = {}
    /\ first_groups = [set |-> FALSE, groups |-> <<>>]
    /\ optimizer = [built |-> FALSE, param_groups |-> <<>>]
    /\ scheduler = [built |-> FALSE, num_warmup_steps |-> 0, num_training_steps |-> 0]
    /\ n_build = 0
    /\ epoch = 0 /\ batch_idx = 0 /\ global_step = 0
    /\ accum = 0
    /\ batch_events = <<>>
    /\ forward_calls = 0 /\ backward_calls = 0
    /\ opt_steps = 0 /\ sched_steps = 0
    /\ eval_log = <<>>
    /\ error = "none"

EvalOff ==
    /\ ev_pc = "off"
    /\ model_type = "bert"
    /\ output_dir = "out"
    /\ test_dl = <<>>
    /\ batch_no = 1
    /\ example_i = 1
    /\ eval_inputs = {}
    /\ model_calls = 0
    /\ all_results = <<>>
    /\ nb_eval_steps = 0
    /\ writer_calls = <<>>
    /\ ev_error = "none"

MainOff ==
    /\ entry = "none"
    /\ m_step = 1
    /\ m_status = "off"
    /\ m_done = {}
    /\ process_id = -1
    /\ args_dataset = ""
    /\ args_model = ""
    /\ args_client_num_in_total = 0
    /\ partition_n_clients = 0
    /\ data_loader_module = "none"
    /\ loaders_built = 0
    /\ train_data_local_num_dict = <<>>
    /\ train_data_local_dict = <<>>
    /\ test_data_local_dict = <<>>
    /\ wandb_inited = FALSE
    /\ fedavg_calls = 0
    /\ m_error = "none"

PreOff ==
    /\ pp_pc = "off"
    /\ raw = <<>>
    /\ train_data_global = <<>>
    /\ test_data_global = <<>>
    /\ pp_train_data_local_dict = <<>>
    /\ pp_test_data_local_dict = <<>>
    /\ freq_vocab = <<>>
    /\ source_vocab = {}
    /\ vocab_x = <<>>
    /\ built_vocab = FALSE
    /\ cli_max_seq_len = 0
    /\ args_max_seq_len = 0
    /\ args_do_remove_low_freq_words = 0
    /\ args_do_remove_stop_words = FALSE
    /\ args_embedding_name = ""
    /\ pp_result = <<>>
    /\ pp_error = "none"

ArgsOff ==
    /\ script = "none"
    /\ argv = <<>>
    /\ parse_pc = "off"
    /\ argv_idx = 0
    /\ args_flag = FALSE
    /\ used_flag = [set |-> FALSE, value |-> FALSE]

-----------------------------------------------------------------------------
(* Python dicts: functions from string keys.  pop(key) removes the key.    *)

Without(d, key) == [k \in (DOMAIN d) \ {key} |-> d[k]]

WithKey(d, key, val) == [k \in (DOMAIN d) \cup {key} |-> IF k = key THEN val ELSE d[k]]

-----------------------------------------------------------------------------
(* The model's parameters.  A parameter name is the sequence of its        *)
(* dot-separated components; `sub in n` is matching on whole components.   *)

named_parameters ==
    << <<"embeddings", "weight">>,
       <<"layer", "0", "weight">>,
       <<"layer", "0", "bias">>,
       <<"layer", "1", "LayerNorm", "weight">>,
       <<"qa_outputs", "bias">> >>

Params == 1 .. Len(named_parameters)

Contains(n, sub) ==
    \E i \in 0 .. (Len(n) - Len(sub)) : \A j \in 1 .. Len(sub) : n[i + j] = sub[j]

no_decay == { <<"bias">>, <<"LayerNorm", "weight">> }

AnyNoDecay(n) == \E nd \in no_decay : Contains(n, nd)

\* f"layer.{layer_number}." in n : the two components, followed by a dot
InLayer(n, layer_number) ==
    \E i \in 1 .. (Len(n) - 2) : n[i] = "layer" /\ n[i + 1] = ToString(layer_number)


-----------------------------------------------------------------------------
(* train_model, lines 73-125: the optimizer parameter groups.              *)

\* lines 77-82: for group in args.custom_parameter_groups
RECURSIVE CustomParameterGroups(_, _, _, _)
CustomParameterGroups(groups, i, ogp, names) ==
    IF i > Len(groups)
    THEN [groups |-> groups, ogp |-> ogp, names |-> names, err |-> "none"]
    ELSE LET group == groups[i] IN
         IF "params" \notin DOMAIN group
         THEN [groups |-> groups, ogp |-> ogp, names |-> names, err |-> "KeyError"]
         ELSE LET params == group["params"]
                  popped == Without(group, "params")
                  param_group == WithKey(popped, "params",
                                     {p \in Params : named_parameters[p] \in params})
              IN  CustomParameterGroups([groups EXCEPT ![i] = popped], i + 1,
                                        Append(ogp, param_group), names \cup params)

\* lines 84-103: for group in args.custom_layer_parameters
RECURSIVE CustomLayerParameters(_, _, _, _)
CustomLayerParameters(groups, i, ogp, names) ==
    IF i > Len(groups)
    THEN [groups |-> groups, ogp |-> ogp, names |-> names, err |-> "none"]
    ELSE LET group == groups[i] IN
         IF "layer" \notin DOMAIN group
         THEN [groups |-> groups, ogp |-> ogp, names |-> names, err |-> "KeyError"]
         ELSE LET layer_number == group["layer"]
                  popped == Without(group, "layer")
                  inLayer == {p \in Params : /\ named_parameters[p] \notin names
                                             /\ InLayer(named_parameters[p], layer_number)}
                  params_nd == {p \in inLayer : AnyNoDecay(named_parameters[p])}
                  params_d == inLayer \ params_nd
                  group_d == WithKey(popped, "params", params_d)
                  group_nd == WithKey(WithKey(popped, "weight_decay", 0), "params", params_nd)
              IN  CustomLayerParameters([groups EXCEPT ![i] = popped], i + 1,
                                        ogp \o <<group_d, group_nd>>,
                                        names \cup {named_parameters[p] : p \in inLayer})

\* lines 105-125: the two default groups
DefaultGroups(names, weight_decay) ==
    << [params |-> {p \in Params : /\ named_parameters[p] \notin names
                                   /\ ~AnyNoDecay(named_parameters[p])},
        weight_decay |-> weight_decay],
       [params |-> {p \in Params : /\ named_parameters[p] \notin names
                                   /\ AnyNoDecay(named_parameters[p])},
        weight_decay |-> 0] >>

\* lines 73-125 as a whole: the lists as train_model leaves them
ComputeGroups(cpg, clp, weight_decay, custom_only) ==
    LET a == CustomParameterGroups(cpg, 1, <<>>, {}) IN
    IF a.err # "none"
    THEN [cpg |-> a.groups, clp |-> clp, ogp |-> a.ogp, names |-> a.names, err |-> a.err]
    ELSE LET b == CustomLayerParameters(clp, 1, a.ogp, a.names) IN
         IF b.err # "none"
         THEN [cpg |-> a.groups, clp |-> b.groups, ogp |-> b.ogp, names |-> b.names,
               err |-> b.err]
         ELSE [cpg |-> a.groups, clp |-> b.groups,
               ogp |-> IF custom_only THEN b.ogp
                       ELSE b.ogp \o DefaultGroups(b.names, weight_decay),
               names |-> b.names, err |-> "none"]

-----------------------------------------------------------------------------
(* SpanExtractionTrainer: the state after __init__ and train_model's steps *)

CustomParameterGroupChoices ==
    { <<>>, << [params |-> { <<"qa_outputs", "bias">> }, lr |-> 2] >> }

CustomLayerParameterChoices ==
    { <<>>, << [layer |-> 0, lr |-> 3] >> }

WarmupRatioChoices == {0, 50}

NoOptimizer == [built |-> FALSE, param_groups |-> <<>>]

NoScheduler == [built |-> FALSE, num_warmup_steps |-> 0, num_training_steps |-> 0]

TrainInit ==
    /\ pc = "idle"
    /\ calls = 0
    /\ args_custom_parameter_groups \in CustomParameterGroupChoices
    /\ args_custom_layer_parameters \in CustomLayerParameterChoices
    /\ args_weight_decay \in 0 .. MaxWeightDecay
    /\ args_train_custom_parameters_only \in BOOLEAN
    /\ args_gradient_accumulation_steps \in 1 .. MaxAccum
    /\ args_num_train_epochs \in 0 .. MaxEpochs
    /\ args_evaluate_during_training \in BOOLEAN
    /\ args_evaluate_during_training_steps \in 0 .. MaxEvalEvery
    /\ args_warmup_ratio \in WarmupRatioChoices
    /\ args_warmup_steps = 0
    /\ train_dl_len \in 0 .. MaxBatches
    /\ optimizer_grouped_parameters = <<>>
    /\ custom_parameter_names = {}
    /\ first_groups = [set |-> FALSE, groups |-> <<>>]
    /\ optimizer = NoOptimizer
    /\ scheduler = NoScheduler
    /\ n_build = 0
    /\ epoch = 0 /\ batch_idx = 0 /\ global_step = 0
    /\ accum = 0
    /\ batch_events = <<>>
    /\ forward_calls = 0 /\ backward_calls = 0
    /\ opt_steps = 0 /\ sched_steps = 0
    /\ eval_log = <<>>
    /\ error = "none"

argsFixed == <<args_weight_decay, args_train_custom_parameters_only,
               args_gradient_accumulation_steps, args_num_train_epochs,
               args_evaluate_during_training, args_evaluate_during_training_steps,
               args_warmup_ratio>>

\* lines 63-125: entry of train_model and the parameter groups
TrainModelEnter ==
    /\ pc = "idle"
    /\ LET r == ComputeGroups(args_custom_parameter_groups, args_custom_layer_parameters,
                              args_weight_decay, args_train_custom_parameters_only)
       IN  /\ args_custom_parameter_groups' = r.cpg
           /\ args_custom_layer_parameters' = r.clp
           /\ optimizer_grouped_parameters' = r.ogp
           /\ custom_parameter_names' = r.names
           /\ error' = r.err
           /\ pc' = IF r.err = "none" THEN "build" ELSE "raised"
           /\ first_groups' = IF ~first_groups.set /\ r.err = "none"
                              THEN [set |-> TRUE, groups |-> r.ogp]
                              ELSE first_groups
    /\ calls' = calls + 1
    /\ optimizer' = NoOptimizer
    /\ scheduler' = NoScheduler
    /\ n_build' = 0
    /\ epoch' = 0 /\ batch_idx' = 0 /\ global_step' = 0
    /\ batch_events' = <<>>
    /\ forward_calls' = 0 /\ backward_calls' = 0
    /\ opt_steps' = 0 /\ sched_steps' = 0
    /\ eval_log' = <<>>
    /\ UNCHANGED <<argsFixed, args_warmup_steps, train_dl_len, accum>>
    /\ UNCHANGED otherThanTrain

\* line 418: AdamW(model.parameters(), lr=..., eps=...): one group holding every
\* parameter, with the library's defaults for what is not given
AdamWParamGroups(ogp) == << [params |-> Params] >>

\* AdamW's weight_decay when a group does not give one (not given at line 418)
AdamWDefaultWeightDecay == 0

IterationInTotalCeil(len, accumulation_steps, epochs) ==
    ((len + accumulation_steps - 1) \div accumulation_steps) * epochs

\* lines 128-129
IterationInTotal(len, accumulation_steps, epochs) == (len \div accumulation_steps) * epochs

\* line 414: math.ceil(iteration_in_total * warmup_ratio), the ratio in percent
WarmupSteps(iteration_in_total, ratio) == (iteration_in_total * ratio + 99) \div 100

\* lines 127-130 and 413-423: build_optimizer
BuildOptimizer ==
    /\ pc = "build"
    /\ LET iteration_in_total == IterationInTotal(train_dl_len,
                                     args_gradient_accumulation_steps, args_num_train_epochs)
           warmup_steps == WarmupSteps(iteration_in_total, args_warmup_ratio)
           new_warmup == IF args_warmup_steps = 0 THEN warmup_steps ELSE args_warmup_steps
       IN  /\ args_warmup_steps' = new_warmup
           /\ optimizer' = [built |-> TRUE,
                            param_groups |-> AdamWParamGroups(optimizer_grouped_parameters)]
           /\ scheduler' = [built |-> TRUE, num_warmup_steps |-> new_warmup,
                            num_training_steps |-> iteration_in_total]
    /\ n_build' = n_build + 1
    /\ pc' = "init"
    /\ UNCHANGED <<calls, args_custom_parameter_groups, args_custom_layer_parameters,
                   argsFixed, train_dl_len, optimizer_grouped_parameters,
                   custom_parameter_names, first_groups, epoch, batch_idx, global_step,
                   accum, batch_events, forward_calls, backward_calls, opt_steps,
                   sched_steps, eval_log, error>>
    /\ UNCHANGED otherThanTrain

\* lines 153, 157: is there a first batch
LoopEntry == IF args_num_train_epochs > 0 /\ train_dl_len > 0 THEN "forward" ELSE "return"

\* lines 132-151: training state, model.zero_grad()
InitTraining ==
    /\ pc = "init"
    /\ global_step' = 0
    /\ accum' = 0
    /\ epoch' = 0 /\ batch_idx' = 0
    /\ pc' = LoopEntry
    /\ UNCHANGED <<calls, args_custom_parameter_groups, args_custom_layer_parameters,
                   argsFixed, args_warmup_steps, train_dl_len,
                   optimizer_grouped_parameters, custom_parameter_names, first_groups,
                   optimizer, scheduler, n_build, batch_events, forward_calls,
                   backward_calls, opt_steps, sched_steps, eval_log, error>>
    /\ UNCHANGED otherThanTrain

\* what the loop leaves alone at every step
loopFixed == <<calls, args_custom_parameter_groups, args_custom_layer_parameters,
               argsFixed, args_warmup_steps, train_dl_len, optimizer_grouped_parameters,
               custom_parameter_names, first_groups, optimizer, scheduler, n_build,
               error>>

\* lines 159-178: outputs = self.model(**inputs)
Forward ==
    /\ pc = "forward"
    /\ forward_calls' = forward_calls + 1
    /\ batch_events' = <<"forward">>
    /\ pc' = "backward"
    /\ UNCHANGED <<loopFixed, epoch, batch_idx, global_step, accum, backward_calls,
                   opt_steps, sched_steps, eval_log>>
    /\ UNCHANGED otherThanTrain

AccumulationBoundaryOffByOne(idx, accumulation_steps) == idx % accumulation_steps = 0

\* line 193
AccumulationBoundary(idx, accumulation_steps) == (idx + 1) % accumulation_steps = 0

\* lines 180-193: loss.backward(), then the test of line 193
Backward ==
    /\ pc = "backward"
    /\ backward_calls' = backward_calls + 1
    /\ accum' = accum + 1
    /\ batch_events' = Append(batch_events, "backward")
    /\ pc' = IF AccumulationBoundary(batch_idx, args_gradient_accumulation_steps)
             THEN "optimizer_step" ELSE "eval"
    /\ UNCHANGED <<loopFixed, epoch, batch_idx, global_step, forward_calls,
                   opt_steps, sched_steps, eval_log>>
    /\ UNCHANGED otherThanTrain

\* lines 194-202: clip_grad_norm_, optimizer.step()
OptimizerStep ==
    /\ pc = "optimizer_step"
    /\ opt_steps' = opt_steps + 1
    /\ batch_events' = Append(batch_events, "optimizer.step")
    /\ pc' = "scheduler_step"
    /\ UNCHANGED <<loopFixed, epoch, batch_idx, global_step, accum, forward_calls,
                   backward_calls, sched_steps, eval_log>>
    /\ UNCHANGED otherThanTrain

\* line 203: scheduler.step()
SchedulerStep ==
    /\ pc = "scheduler_step"
    /\ sched_steps' = sched_steps + 1
    /\ batch_events' = Append(batch_events, "scheduler.step")
    /\ pc' = "zero_grad"
    /\ UNCHANGED <<loopFixed, epoch, batch_idx, global_step, accum, forward_calls,
                   backward_calls, opt_steps, eval_log>>
    /\ UNCHANGED otherThanTrain

\* line 204: self.model.zero_grad()
ZeroGrad ==
    /\ pc = "zero_grad"
    /\ accum' = 0
    /\ batch_events' = Append(batch_events, "zero_grad")
    /\ pc' = "global_step"
    /\ UNCHANGED <<loopFixed, epoch, batch_idx, global_step, forward_calls,
                   backward_calls, opt_steps, sched_steps, eval_log>>
    /\ UNCHANGED otherThanTrain

\* line 205: global_step += 1
IncGlobalStep ==
    /\ pc = "global_step"
    /\ global_step' = global_step + 1
    /\ batch_events' = Append(batch_events, "global_step")
    /\ pc' = "eval"
    /\ UNCHANGED <<loopFixed, epoch, batch_idx, accum, forward_calls, backward_calls,
                   opt_steps, sched_steps, eval_log>>
    /\ UNCHANGED otherThanTrain

\* lines 207-208
EvalDue(step) ==
    /\ args_evaluate_during_training
    /\ args_evaluate_during_training_steps > 0
    /\ step % args_evaluate_during_training_steps = 0

\* lines 207-210, then the next batch (157), the next epoch (153) or the return
EvalDuringTraining ==
    /\ pc = "eval"
    /\ eval_log' = IF EvalDue(global_step) THEN Append(eval_log, global_step) ELSE eval_log
    /\ IF batch_idx + 1 < train_dl_len
       THEN /\ batch_idx' = batch_idx + 1 /\ epoch' = epoch /\ pc' = "forward"
            /\ batch_events' = <<>>
       ELSE IF epoch + 1 < args_num_train_epochs
            THEN /\ batch_idx' = 0 /\ epoch' = epoch + 1 /\ pc' = "forward"
                 /\ batch_events' = <<>>
            ELSE /\ batch_idx' = batch_idx /\ epoch' = epoch /\ pc' = "return"
                 /\ batch_events' = batch_events
    /\ UNCHANGED <<loopFixed, global_step, accum, forward_calls, backward_calls,
                   opt_steps, sched_steps>>
    /\ UNCHANGED otherThanTrain

TrainModelReturnUnchecked ==
    /\ pc = "return"
    /\ pc' = "returned" /\ error' = "none"
    /\ UNCHANGED <<calls, args_custom_parameter_groups, args_custom_layer_parameters,
                   argsFixed, args_warmup_steps, train_dl_len,
                   optimizer_grouped_parameters, custom_parameter_names, first_groups,
                   optimizer, scheduler, n_build, epoch, batch_idx, global_step, accum,
                   batch_events, forward_calls, backward_calls, opt_steps, sched_steps,
                   eval_log>>
    /\ UNCHANGED otherThanTrain

\* line 213: return global_step, tr_loss / global_step
TrainModelReturn ==
    /\ pc = "return"
    /\ IF global_step = 0
       THEN /\ pc' = "raised" /\ error' = "ZeroDivisionError"
       ELSE /\ pc' = "returned" /\ error' = "none"
    /\ UNCHANGED <<calls, args_custom_parameter_groups, args_custom_layer_parameters,
                   argsFixed, args_warmup_steps, train_dl_len,
                   optimizer_grouped_parameters, custom_parameter_names, first_groups,
                   optimizer, scheduler, n_build, epoch, batch_idx, global_step, accum,
                   batch_events, forward_calls, backward_calls, opt_steps, sched_steps,
                   eval_log>>
    /\ UNCHANGED otherThanTrain

\* lines 57-60: set_data, after which the trainer is trained again
SetData ==
    /\ pc \in {"returned", "raised"}
    /\ calls < MaxCalls
    /\ train_dl_len' \in 0 .. MaxBatches
    /\ pc' = "idle"
    /\ UNCHANGED <<calls, args_custom_parameter_groups, args_custom_layer_parameters,
                   argsFixed, args_warmup_steps, optimizer_grouped_parameters,
                   custom_parameter_names, first_groups, optimizer, scheduler, n_build,
                   epoch, batch_idx, global_step, accum, batch_events, forward_calls,
                   backward_calls, opt_steps, sched_steps, eval_log, error>>
    /\ UNCHANGED otherThanTrain

TrainNext ==
    \/ TrainModelEnter
    \/ BuildOptimizer
    \/ InitTraining
    \/ Forward
    \/ Backward
    \/ OptimizerStep
    \/ SchedulerStep
    \/ ZeroGrad
    \/ IncGlobalStep
    \/ EvalDuringTraining
    \/ TrainModelReturn
    \/ SetData

InitTrain == TrainInit /\ EvalOff /\ MainOff /\ PreOff /\ ArgsOff

SpecTrain == InitTrain /\ [][TrainNext]_vars

-----------------------------------------------------------------------------
(* Claims about SpanExtractionTrainer.train_model                          *)

\* the weight decay the optimizer applies to parameter p
OptimizerWeightDecay(p) ==
    LET g == CHOOSE g \in {optimizer.param_groups[i] : i \in DOMAIN optimizer.param_groups} :
                 p \in g["params"]
    IN  IF "weight_decay" \in DOMAIN g THEN g["weight_decay"] ELSE AdamWDefaultWeightDecay

\* C1: the optimizer that train_model steps is built over the parameter groups
\* train_model computed, so that (with the default groups in use) every
\* non-custom parameter whose name contains "bias" or "LayerNorm.weight" is
\* optimized with weight decay 0.0 and every other non-custom parameter with
\* args.weight_decay.
C1_OptimizerOverComputedGroups ==
    (optimizer.built /\ ~args_train_custom_parameters_only) =>
        /\ Len(optimizer.param_groups) = Len(optimizer_grouped_parameters)
        /\ \A p \in Params :
               named_parameters[p] \notin custom_parameter_names =>
                   OptimizerWeightDecay(p) =
                       IF AnyNoDecay(named_parameters[p]) THEN 0 ELSE args_weight_decay

\* the calls train_model makes for the batch at index idx, up to line 205
CallsOfBatch(idx) ==
    <<"forward", "backward">> \o
    (IF (idx + 1) % args_gradient_accumulation_steps = 0
     THEN <<"optimizer.step", "scheduler.step", "zero_grad", "global_step">>
     ELSE <<>>)

IsPrefix(s, t) == Len(s) <= Len(t) /\ \A i \in 1 .. Len(s) : s[i] = t[i]

InLoop == pc \in {"forward", "backward", "optimizer_step", "scheduler_step",
                  "zero_grad", "global_step", "eval"}

\* C2: train_model builds the optimizer and scheduler exactly once, before the
\* first batch; every batch of every epoch gets a forward and then a backward
\* call; optimizer step, scheduler step, zero_grad and the global_step
\* increment happen in that order and only on batches whose (batch_idx + 1) is
\* a multiple of args.gradient_accumulation_steps.
C2_TrainingSequence ==
    /\ (InLoop \/ pc \in {"init", "return", "returned"}) =>
           /\ n_build = 1 /\ optimizer.built /\ scheduler.built
    /\ pc = "build" => (n_build = 0 /\ ~optimizer.built /\ ~scheduler.built)
    /\ ~optimizer.built => forward_calls = 0
    /\ IsPrefix(batch_events, CallsOfBatch(batch_idx))
    /\ InLoop =>
           /\ forward_calls = epoch * train_dl_len + batch_idx
                                + (IF pc = "forward" THEN 0 ELSE 1)
           /\ backward_calls = epoch * train_dl_len + batch_idx
                                + (IF pc \in {"forward", "backward"} THEN 0 ELSE 1)
           /\ pc = "eval" => batch_events = CallsOfBatch(batch_idx)
    /\ pc \in {"return", "returned"} =>
           /\ forward_calls = args_num_train_epochs * train_dl_len
           /\ backward_calls = forward_calls
    /\ opt_steps >= sched_steps /\ sched_steps >= global_step
    /\ global_step >= opt_steps - 1
    /\ (pc \in {"forward", "backward", "eval", "return", "returned"}) =>
           /\ opt_steps = global_step /\ sched_steps = global_step

\* C2's case: in a second epoch, with two accumulation steps, a batch that
\* closes an accumulation window has gone through all six calls
C2_Witness ==
    /\ pc = "eval"
    /\ epoch = 1
    /\ args_gradient_accumulation_steps = 2
    /\ batch_idx = 1
    /\ batch_events =
           <<"forward", "backward", "optimizer.step", "scheduler.step", "zero_grad",
             "global_step">>

\* C10: train_model leaves args.custom_parameter_groups and
\* args.custom_layer_parameters as they were (every group keeps its "params",
\* resp. "layer" entry), so a later train_model call after set_data does not
\* raise and computes the groups the first call computed.
C10_ArgsKeptAcrossCalls ==
    /\ \A i \in DOMAIN args_custom_parameter_groups :
           "params" \in DOMAIN args_custom_parameter_groups[i]
    /\ \A i \in DOMAIN args_custom_layer_parameters :
           "layer" \in DOMAIN args_custom_layer_parameters[i]
    /\ error # "KeyError"
    /\ (calls >= 2 /\ pc # "idle" /\ first_groups.set) =>
           optimizer_grouped_parameters = first_groups.groups

-----------------------------------------------------------------------------
(* SpanExtractionTrainer.evaluate, lines 234-359                           *)

ModelTypes == {"bert", "roberta", "xlnet", "xlm"}

\* test_dl as a list of batches; batch[4] of each is its example indices, which
\* run through the features in order
RECURSIVE BatchesOfSizes(_, _)
BatchesOfSizes(sizes, first) ==
    IF sizes = <<>> THEN <<>>
    ELSE << [k \in 1 .. Head(sizes) |-> first + k - 1] >>
         \o BatchesOfSizes(Tail(sizes), first + Head(sizes))

TestDataLoaders ==
    UNION { { BatchesOfSizes(sizes, 0) : sizes \in [1 .. n -> 1 .. MaxEvalBatchSize] }
            : n \in 0 .. MaxEvalBatches }

\* line 246, 294-295: features[example_index].unique_id
FeatureUniqueId(example_index) == 1000000000 + example_index

EvalInit ==
    /\ ev_pc = "evaluate"
    /\ model_type \in ModelTypes
    /\ output_dir \in {"out", "/tmp/squad_1.1"}
    /\ test_dl \in TestDataLoaders
    /\ batch_no = 1
    /\ example_i = 1
    /\ eval_inputs = {}
    /\ model_calls = 0
    /\ all_results = <<>>
    /\ nb_eval_steps = 0
    /\ writer_calls = <<>>
    /\ ev_error = "none"

\* lines 240-258
EvaluateEnter ==
    /\ ev_pc = "evaluate"
    /\ all_results' = <<>>
    /\ nb_eval_steps' = 0
    /\ batch_no' = 1
    /\ ev_pc' = "batch"
    /\ UNCHANGED <<model_type, output_dir, test_dl, example_i, eval_inputs, model_calls,
                   writer_calls, ev_error>>
    /\ UNCHANGED otherThanEval

\* lines 263-283: the inputs of the model call
EvalInputs(mtype) ==
    ({"input_ids", "attention_mask", "token_type_ids"}
       \ (IF mtype \in {"xlm", "roberta", "distilbert", "camembert", "electra",
                        "xlmroberta", "bart"}
          THEN {"token_type_ids"} ELSE {}))
    \cup (IF mtype \in {"xlnet", "xlm"} THEN {"cls_index", "p_mask"} ELSE {})

\* lines 259-291: the next batch, outputs = model(**inputs)
EvalModelCall ==
    /\ ev_pc = "batch"
    /\ batch_no <= Len(test_dl)
    /\ eval_inputs' = EvalInputs(model_type)
    /\ model_calls' = model_calls + 1
    /\ example_i' = 1
    /\ ev_pc' = "results"
    /\ UNCHANGED <<model_type, output_dir, test_dl, batch_no, all_results, nb_eval_steps,
                   writer_calls, ev_error>>
    /\ UNCHANGED otherThanEval

MoreExamplesSkipLast(i, example_indices) == i < Len(example_indices)

\* line 293: for i, example_index in enumerate(example_indices)
MoreExamples(i, example_indices) == i <= Len(example_indices)

\* lines 296-311
RawResultOf(mtype, unique_id) ==
    IF mtype \in {"xlnet", "xlm"}
    THEN [kind |-> "RawResultExtended", unique_id |-> unique_id]
    ELSE [kind |-> "RawResult", unique_id |-> unique_id]

\* lines 293-312: one example index of the batch
EvalAppendResult ==
    /\ ev_pc = "results"
    /\ MoreExamples(example_i, test_dl[batch_no])
    /\ LET example_index == test_dl[batch_no][example_i]
           unique_id == FeatureUniqueId(example_index)
       IN  all_results' = Append(all_results, RawResultOf(model_type, unique_id))
    /\ example_i' = example_i + 1
    /\ UNCHANGED <<ev_pc, model_type, output_dir, test_dl, batch_no, eval_inputs,
                   model_calls, nb_eval_steps, writer_calls, ev_error>>
    /\ UNCHANGED otherThanEval

\* line 314: nb_eval_steps += 1, at the end of the batch
EvalBatchEnd ==
    /\ ev_pc = "results"
    /\ ~MoreExamples(example_i, test_dl[batch_no])
    /\ nb_eval_steps' = nb_eval_steps + 1
    /\ batch_no' = batch_no + 1
    /\ ev_pc' = "batch"
    /\ UNCHANGED <<model_type, output_dir, test_dl, example_i, eval_inputs, model_calls,
                   all_results, writer_calls, ev_error>>
    /\ UNCHANGED otherThanEval

\* lines 318-323: os.path.join(output_dir, "<name>_{}.json".format(prefix))
OutputFiles(dir, prefix) ==
    << dir \o "/" \o "predictions_" \o prefix \o ".json",
       dir \o "/" \o "nbest_predictions_" \o prefix \o ".json",
       dir \o "/" \o "null_odds_" \o prefix \o ".json" >>

\* lines 325-357: which writer is called
WriterOf(mtype) ==
    IF mtype \in {"xlnet", "xlm"} THEN "write_predictions_extended" ELSE "write_predictions"

\* lines 316-359: after the last batch
EvaluateFinish ==
    /\ ev_pc = "batch"
    /\ batch_no > Len(test_dl)
    /\ IF nb_eval_steps = 0
       THEN /\ ev_error' = "ZeroDivisionError"
            /\ ev_pc' = "raised"
            /\ writer_calls' = writer_calls
       ELSE /\ ev_error' = "none"
            /\ ev_pc' = "returned"
            /\ writer_calls' = Append(writer_calls,
                                   [writer |-> WriterOf(model_type),
                                    all_results |-> all_results,
                                    files |-> OutputFiles(output_dir, "test")])
    /\ UNCHANGED <<model_type, output_dir, test_dl, batch_no, example_i, eval_inputs,
                   model_calls, all_results, nb_eval_steps>>
    /\ UNCHANGED otherThanEval

EvalNext ==
    \/ EvaluateEnter
    \/ EvalModelCall
    \/ EvalAppendResult
    \/ EvalBatchEnd
    \/ EvaluateFinish

InitEval == EvalInit /\ TrainOff /\ MainOff /\ PreOff /\ ArgsOff

SpecEval == InitEval /\ [][EvalNext]_vars

-----------------------------------------------------------------------------
(* Claims about SpanExtractionTrainer.evaluate                             *)

RECURSIVE SumLen(_)
SumLen(batches) == IF batches = <<>> THEN 0 ELSE Len(Head(batches)) + SumLen(Tail(batches))

\* the example indices of the first n batches, in order
RECURSIVE Flatten(_)
Flatten(batches) == IF batches = <<>> THEN <<>> ELSE Head(batches) \o Flatten(Tail(batches))

\* C3: evaluate runs the model on every batch of test_dl and appends exactly
\* one raw result per example index of each batch; only after the last batch
\* it calls the prediction writer, exactly once, with predictions_test.json,
\* nbest_predictions_test.json and null_odds_test.json under output_dir, and
\* the writer gets as many raw results as there are example indices in all
\* batches.
C3_EvaluateSequence ==
    LET done == SubSeq(test_dl, 1, batch_no - 1)
        seen == IF ev_pc = "results"
                THEN Flatten(done) \o SubSeq(test_dl[batch_no], 1, example_i - 1)
                ELSE Flatten(done)
    IN  /\ ev_pc \in {"batch", "results", "returned", "raised"} =>
               /\ Len(all_results) = Len(seen)
               /\ \A k \in 1 .. Len(seen) : all_results[k].unique_id = FeatureUniqueId(seen[k])
               /\ model_calls = (batch_no - 1) + (IF ev_pc = "results" THEN 1 ELSE 0)
               /\ nb_eval_steps = batch_no - 1
        /\ Len(writer_calls) <= 1
        /\ ev_pc \in {"evaluate", "batch", "results", "raised"} => writer_calls = <<>>
        /\ ev_pc = "returned" =>
               /\ Len(writer_calls) = 1
               /\ model_calls = Len(test_dl)
               /\ Len(writer_calls[1].all_results) = SumLen(test_dl)
               /\ writer_calls[1].files =
                      << output_dir \o "/predictions_test.json",
                         output_dir \o "/nbest_predictions_test.json",
                         output_dir \o "/null_odds_test.json" >>
        /\ ev_pc = "raised" => test_dl = <<>>

\* C3's case: evaluate has returned from a test_dl of several batches of
\* different sizes
C3_Witness ==
    /\ ev_pc = "returned"
    /\ Len(test_dl) = 3
    /\ Len(test_dl[1]) = 2 /\ Len(test_dl[2]) = 1
    /\ Len(writer_calls) = 1
    /\ Len(writer_calls[1].all_results) >= 4

-----------------------------------------------------------------------------
(* The entry scripts: BiLSTM FedAvg (main_fedavg.py), transformer FedAvg   *)
(* (text_classification_fedavg.py) and the centralized transformer script  *)
(* (text_classification.py), as the statement groups each runs in order.   *)

\* main_fedavg.py, lines 348-426, with FedML_FedAvg_distributed before the model exists
BilstmMainFedAvgEarly ==
    << "FedML_init", "add_args", "logging", "wandb_init", "seed", "device",
       "load_data", "preprocess_data", "FedML_FedAvg_distributed", "create_model",
       "model_trainer" >>

\* main_fedavg.py, lines 348-426
BilstmMain ==
    << "FedML_init", "add_args", "logging", "wandb_init", "seed", "device",
       "load_data", "preprocess_data", "create_model", "model_trainer",
       "FedML_FedAvg_distributed" >>

\* text_classification_fedavg.py, lines 251-290 and main, lines 180-242
FedavgMain ==
    << "add_args", "seed", "FedML_init", "logging", "wandb_init", "device",
       "load_data", "create_model", "model_trainer", "FedML_FedAvg_distributed" >>

\* text_classification.py, lines 164-176 and main, lines 120-161
CentralMain ==
    << "add_args", "wandb_init", "logging", "load_data", "create_model",
       "train_model", "eval_model" >>

Entries == {"bilstm_fedavg", "tc_fedavg", "tc_central"}

Program(e) ==
    CASE e = "bilstm_fedavg" -> BilstmMain
      [] e = "tc_fedavg" -> FedavgMain
      [] e = "tc_central" -> CentralMain

Distributed(e) == e \in {"bilstm_fedavg", "tc_fedavg"}

\* the statement group the process is at
AtStep(name) ==
    /\ m_status = "running"
    /\ m_step <= Len(Program(entry))
    /\ Program(entry)[m_step] = name

\* the process moves past the statement group it is at
Advance ==
    /\ m_done' = m_done \cup {Program(entry)[m_step]}
    /\ m_step' = m_step + 1
    /\ m_status' = IF m_step = Len(Program(entry)) THEN "done" ELSE "running"

Raise(exc) ==
    /\ m_status' = "raised"
    /\ m_error' = exc
    /\ UNCHANGED <<m_step, m_done>>

DatasetNames ==
    {"20news", "agnews", "semeval_2010_task8", "sentiment140", "sst_2",
     "squad_1.1", "SST_2", ""}

ModelNames == {"bilstm", "bilstm_attention", "distilbert"}

MainInit ==
    /\ entry \in Entries
    /\ m_step = 1
    /\ m_status = "running"
    /\ m_done = {}
    /\ process_id = -1
    /\ args_dataset = ""
    /\ args_model = ""
    /\ args_client_num_in_total = 0
    /\ partition_n_clients \in 0 .. MaxClients
    /\ data_loader_module = "none"
    /\ loaders_built = 0
    /\ train_data_local_num_dict = <<>>
    /\ train_data_local_dict = <<>>
    /\ test_data_local_dict = <<>>
    /\ wandb_inited = FALSE
    /\ fedavg_calls = 0
    /\ m_error = "none"

\* FedML_init(): main_fedavg.py line 350, text_classification_fedavg.py line 266
M_FedMLInit ==
    /\ AtStep("FedML_init")
    /\ process_id' \in 0 .. MaxProcessId
    /\ Advance
    /\ UNCHANGED <<entry, args_dataset, args_model, args_client_num_in_total,
                   partition_n_clients, data_loader_module, loaders_built,
                   train_data_local_num_dict, train_data_local_dict,
                   test_data_local_dict, wandb_inited, fedavg_calls, m_error>>
    /\ UNCHANGED otherThanMain

\* add_args(parser): the command line gives the dataset, the model and the
\* number of clients
M_AddArgs ==
    /\ AtStep("add_args")
    /\ args_dataset' \in DatasetNames
    /\ args_model' \in (IF entry = "bilstm_fedavg" THEN ModelNames ELSE {"distilbert"})
    /\ args_client_num_in_total' \in (IF Distributed(entry) THEN 1 .. MaxClients ELSE {0})
    /\ Advance
    /\ UNCHANGED <<entry, process_id, partition_n_clients, data_loader_module,
                   loaders_built, train_data_local_num_dict, train_data_local_dict,
                   test_data_local_dict, wandb_inited, fedavg_calls, m_error>>
    /\ UNCHANGED otherThanMain

\* logging setup, random seeds, device selection
M_Setup ==
    /\ m_status = "running"
    /\ m_step <= Len(Program(entry))
    /\ Program(entry)[m_step] \in {"logging", "seed", "device"}
    /\ Advance
    /\ UNCHANGED <<entry, process_id, args_dataset, args_model, args_client_num_in_total,
                   partition_n_clients, data_loader_module, loaders_built,
                   train_data_local_num_dict, train_data_local_dict,
                   test_data_local_dict, wandb_inited, fedavg_calls, m_error>>
    /\ UNCHANGED otherThanMain

\* wandb.init: only in process 0 of the distributed scripts (main_fedavg.py 376,
\* text_classification_fedavg.py 282), always in the centralized one (170)
M_WandbInit ==
    /\ AtStep("wandb_init")
    /\ wandb_inited' = (IF Distributed(entry) THEN process_id = 0 ELSE TRUE)
    /\ Advance
    /\ UNCHANGED <<entry, process_id, args_dataset, args_model, args_client_num_in_total,
                   partition_n_clients, data_loader_module, loaders_built,
                   train_data_local_num_dict, train_data_local_dict,
                   test_data_local_dict, fedavg_calls, m_error>>
    /\ UNCHANGED otherThanMain


\* main_fedavg.py, lines 126-177, with the sst_2 branch selecting the
\* Sentiment140 loader
BilstmLoaderModuleWrongBranch(dataset_name) ==
    CASE dataset_name = "20news" -> "data_preprocessing.news_20.data_loader"
      [] dataset_name = "agnews" -> "data_preprocessing.AGNews.data_loader"
      [] dataset_name = "semeval_2010_task8" -> "data_preprocessing.SemEval2010Task8.data_loader"
      [] dataset_name = "sentiment140" -> "data_preprocessing.Sentiment140.data_loader"
      [] dataset_name = "sst_2" -> "data_preprocessing.Sentiment140.data_loader"
      [] OTHER -> "none"

\* main_fedavg.py, lines 126-177: the if/elif chain on dataset_name
\* ("none": the else branch, raise Exception("No such dataset"))
BilstmLoaderModule(dataset_name) ==
    CASE dataset_name = "20news" -> "data_preprocessing.news_20.data_loader"
      [] dataset_name = "agnews" -> "data_preprocessing.AGNews.data_loader"
      [] dataset_name = "semeval_2010_task8" -> "data_preprocessing.SemEval2010Task8.data_loader"
      [] dataset_name = "sentiment140" -> "data_preprocessing.Sentiment140.data_loader"
      [] dataset_name = "sst_2" -> "data_preprocessing.SST_2.data_loader"
      [] OTHER -> "none"

\* text_classification_fedavg.py, lines 133-144
FedavgLoaderModule(dataset) ==
    CASE dataset = "20news" -> "data_preprocessing.news_20.data_loader"
      [] dataset = "agnews" -> "data_preprocessing.AGNews.data_loader"
      [] dataset = "semeval_2010_task8" -> "data_preprocessing.SemEval2010Task8.data_loader"
      [] dataset = "sentiment140" -> "data_preprocessing.Sentiment140.data_loader"
      [] dataset = "sst_2" -> "data_preprocessing.SST_2.data_loader"
      [] OTHER -> "none"

\* text_classification.py, lines 100-116
CentralLoaderModule(dataset) ==
    CASE dataset = "20news" -> "data_preprocessing.news_20.data_loader"
      [] dataset = "agnews" -> "data_preprocessing.AGNews.data_loader"
      [] dataset = "semeval_2010_task8" -> "data_preprocessing.SemEval2010Task8.data_loader"
      [] dataset = "sentiment140" -> "data_preprocessing.Sentiment140.data_loader"
      [] dataset = "sst_2" -> "data_preprocessing.SST_2.data_loader"
      [] OTHER -> "none"

\* a ClientDataLoader of the server is written -1, that of client idx is idx
ServerLoader == -1

\* main_fedavg.py, lines 124-190
LoadDataBilstm(dataset_name, n_clients) ==
    LET module == BilstmLoaderModule(dataset_name) IN
    IF module = "none"
    THEN [raised |-> TRUE, module |-> "none", loaders |-> 0,
          num_dict |-> <<>>, train_dict |-> <<>>, test_dict |-> <<>>]
    ELSE [raised |-> FALSE, module |-> module, loaders |-> 1 + n_clients,
          num_dict |-> [idx \in 0 .. n_clients - 1 |->
                           [loader |-> idx, get |-> "get_train_data_num"]],
          train_dict |-> [idx \in 0 .. n_clients - 1 |->
                           [loader |-> idx, get |-> "get_train_batch_data"]],
          test_dict |-> [idx \in 0 .. n_clients - 1 |->
                           [loader |-> ServerLoader, get |-> "get_test_batch_data"]]]

\* text_classification_fedavg.py, lines 131-177
LoadDataFedavg(dataset, n_clients) ==
    LET module == FedavgLoaderModule(dataset) IN
    IF module = "none"
    THEN [raised |-> TRUE, module |-> "none", loaders |-> 0,
          num_dict |-> <<>>, train_dict |-> <<>>, test_dict |-> <<>>]
    ELSE [raised |-> FALSE, module |-> module, loaders |-> 1 + n_clients,
          num_dict |-> [idx \in 0 .. n_clients - 1 |->
                           [loader |-> idx, get |-> "get_train_data_num"]],
          train_dict |-> [idx \in 0 .. n_clients - 1 |->
                           [loader |-> idx, get |-> "get_train_batch_data"]],
          test_dict |-> [idx \in 0 .. n_clients - 1 |->
                           [loader |-> idx, get |-> "get_test_batch_data"]]]

\* text_classification.py, lines 98-117
LoadDataCentral(dataset) ==
    LET module == CentralLoaderModule(dataset) IN
    IF module = "none"
    THEN [raised |-> TRUE, module |-> "none", loaders |-> 0,
          num_dict |-> <<>>, train_dict |-> <<>>, test_dict |-> <<>>]
    ELSE [raised |-> FALSE, module |-> module, loaders |-> 1,
          num_dict |-> <<>>, train_dict |-> <<>>, test_dict |-> <<>>]

\* load_data(args, args.dataset) of the script the process runs
M_LoadData ==
    /\ AtStep("load_data")
    /\ LET r == CASE entry = "bilstm_fedavg" ->
                         LoadDataBilstm(args_dataset, partition_n_clients)
                  [] entry = "tc_fedavg" ->
                         LoadDataFedavg(args_dataset, partition_n_clients)
                  [] entry = "tc_central" -> LoadDataCentral(args_dataset)
       IN  /\ data_loader_module' = r.module
           /\ loaders_built' = loaders_built + r.loaders
           /\ train_data_local_num_dict' = r.num_dict
           /\ train_data_local_dict' = r.train_dict
           /\ test_data_local_dict' = r.test_dict
           /\ IF r.raised
              THEN Raise("No such dataset")
              ELSE Advance /\ UNCHANGED m_error
    /\ UNCHANGED <<entry, process_id, args_dataset, args_model, args_client_num_in_total,
                   partition_n_clients, wandb_inited, fedavg_calls>>
    /\ UNCHANGED otherThanMain

\* main_fedavg.py line 408: preprocess_data, which may raise
\* (lines 261 and 268)
M_PreprocessData ==
    /\ AtStep("preprocess_data")
    /\ \E ok \in BOOLEAN :
           IF ok THEN Advance /\ UNCHANGED m_error
           ELSE Raise("preprocess_data")
    /\ UNCHANGED <<entry, process_id, args_dataset, args_model, args_client_num_in_total,
                   partition_n_clients, data_loader_module, loaders_built,
                   train_data_local_num_dict, train_data_local_dict,
                   test_data_local_dict, wandb_inited, fedavg_calls>>
    /\ UNCHANGED otherThanMain

\* main_fedavg.py, lines 316-329 (create_model); ClassificationModel(...) in
\* the transformer scripts
M_CreateModel ==
    /\ AtStep("create_model")
    /\ IF entry = "bilstm_fedavg" /\ args_model \notin {"bilstm_attention", "bilstm"}
       THEN Raise("No such model")
       ELSE Advance /\ UNCHANGED m_error
    /\ UNCHANGED <<entry, process_id, args_dataset, args_model, args_client_num_in_total,
                   partition_n_clients, data_loader_module, loaders_built,
                   train_data_local_num_dict, train_data_local_dict,
                   test_data_local_dict, wandb_inited, fedavg_calls>>
    /\ UNCHANGED otherThanMain

\* main_fedavg.py line 420, text_classification_fedavg.py line 234
M_ModelTrainer ==
    /\ AtStep("model_trainer")
    /\ Advance
    /\ UNCHANGED <<entry, process_id, args_dataset, args_model, args_client_num_in_total,
                   partition_n_clients, data_loader_module, loaders_built,
                   train_data_local_num_dict, train_data_local_dict,
                   test_data_local_dict, wandb_inited, fedavg_calls, m_error>>
    /\ UNCHANGED otherThanMain

\* main_fedavg.py line 423, text_classification_fedavg.py line 239
M_FedAvg ==
    /\ AtStep("FedML_FedAvg_distributed")
    /\ fedavg_calls' = fedavg_calls + 1
    /\ Advance
    /\ UNCHANGED <<entry, process_id, args_dataset, args_model, args_client_num_in_total,
                   partition_n_clients, data_loader_module, loaders_built,
                   train_data_local_num_dict, train_data_local_dict,
                   test_data_local_dict, wandb_inited, m_error>>
    /\ UNCHANGED otherThanMain

\* text_classification.py, lines 156-161: model.train_model, model.eval_model
M_TrainEval ==
    /\ m_status = "running"
    /\ m_step <= Len(Program(entry))
    /\ Program(entry)[m_step] \in {"train_model", "eval_model"}
    /\ Advance
    /\ UNCHANGED <<entry, process_id, args_dataset, args_model, args_client_num_in_total,
                   partition_n_clients, data_loader_module, loaders_built,
                   train_data_local_num_dict, train_data_local_dict,
                   test_data_local_dict, wandb_inited, fedavg_calls, m_error>>
    /\ UNCHANGED otherThanMain

MainNext ==
    \/ M_FedMLInit
    \/ M_AddArgs
    \/ M_Setup
    \/ M_WandbInit
    \/ M_LoadData
    \/ M_PreprocessData
    \/ M_CreateModel
    \/ M_ModelTrainer
    \/ M_FedAvg
    \/ M_TrainEval

InitMain == MainInit /\ TrainOff /\ EvalOff /\ PreOff /\ ArgsOff

SpecMain == InitMain /\ [][MainNext]_vars

-----------------------------------------------------------------------------
(* Claims about the entry scripts                                          *)

KnownDatasets == {"20news", "agnews", "semeval_2010_task8", "sentiment140", "sst_2"}

LoaderOfDataset ==
    [d \in KnownDatasets |->
        CASE d = "20news" -> "data_preprocessing.news_20.data_loader"
          [] d = "agnews" -> "data_preprocessing.AGNews.data_loader"
          [] d = "semeval_2010_task8" -> "data_preprocessing.SemEval2010Task8.data_loader"
          [] d = "sentiment140" -> "data_preprocessing.Sentiment140.data_loader"
          [] d = "sst_2" -> "data_preprocessing.SST_2.data_loader"]

\* C4: in each text-classification entry point load_data accepts exactly the
\* names 20news, agnews, semeval_2010_task8, sentiment140 and sst_2, selects
\* for each its own loader module, and for any other name raises
\* Exception("No such dataset") before any ClientDataLoader is constructed.
C4_LoadDataSelectsLoader ==
    /\ \A d1, d2 \in KnownDatasets : LoaderOfDataset[d1] = LoaderOfDataset[d2] => d1 = d2
    /\ "load_data" \in m_done =>
           /\ args_dataset \in KnownDatasets
           /\ data_loader_module = LoaderOfDataset[args_dataset]
           /\ loaders_built >= 1
    /\ (m_status = "raised" /\ Program(entry)[m_step] = "load_data") =>
           /\ args_dataset \notin KnownDatasets
           /\ m_error = "No such dataset"
           /\ loaders_built = 0
           /\ data_loader_module = "none"
    /\ m_error = "No such dataset" =>
           (m_status = "raised" /\ Program(entry)[m_step] = "load_data")

\* C4's case: the BiLSTM script was given a name that differs from a known
\* one only in its case, and load_data has raised
C4_Witness ==
    /\ entry = "bilstm_fedavg"
    /\ args_dataset = "SST_2"
    /\ m_status = "raised"
    /\ m_error = "No such dataset"
    /\ loaders_built = 0

\* C5: each distributed entry point calls FedML_FedAvg_distributed at most
\* once per process, exactly once in a process that runs to its end, and only
\* after FedML_init, load_data, the creation of the model and the creation of
\* the model trainer have completed in that process; the call is the script's
\* last statement (the script runs no round loop and sends nothing itself).
C5_FedAvgOnceAfterSetup ==
    /\ fedavg_calls <= 1
    /\ fedavg_calls = 1 =>
           /\ Distributed(entry)
           /\ {"FedML_init", "load_data", "create_model", "model_trainer"} \subseteq m_done
           /\ process_id \in 0 .. MaxProcessId
           /\ m_status = "done"
    /\ (m_status = "done" /\ Distributed(entry)) => fedavg_calls = 1
    /\ (m_status = "running" /\ Program(entry)[m_step] = "FedML_FedAvg_distributed") =>
           {"FedML_init", "load_data", "create_model", "model_trainer"} \subseteq m_done
    /\ m_status = "raised" => fedavg_calls = 0

\* C5's case: a client process of the BiLSTM script has made its one call
C5_Witness ==
    /\ entry = "bilstm_fedavg"
    /\ process_id = 1
    /\ fedavg_calls = 1
    /\ m_status = "done"

\* C8: in both distributed entry points the three dictionaries load_data
\* returns have an entry for every client index 0 .. args.client_num_in_total - 1
\* and identical key sets.
C8_DictsCoverAllClients ==
    (Distributed(entry) /\ "load_data" \in m_done) =>
        /\ DOMAIN train_data_local_num_dict = 0 .. (args_client_num_in_total - 1)
        /\ DOMAIN train_data_local_dict = DOMAIN train_data_local_num_dict
        /\ DOMAIN test_data_local_dict = DOMAIN train_data_local_num_dict

-----------------------------------------------------------------------------
(* preprocess_data, main_fedavg.py lines 192-313                           *)

\* tokenized sentences of the data files
SentenceChoices ==
    { <<"a">>, <<"a", "b">>, <<"the", "a">>, <<"b", "the", "a">> }

\* spacy.lang.en.STOP_WORDS (line 13), as far as the tokens above go
STOP_WORDS == {"the"}

SentenceLists(max) == UNION { [1 .. n -> SentenceChoices] : n \in 0 .. max }

\* get_train_batch_data(batch_size) / get_test_batch_data(batch_size): the
\* sentences in batches of batch_size, each batch a dict with "X" and "Y"
RECURSIVE BatchData(_, _)
BatchData(sentences, batch_size) ==
    IF sentences = <<>> THEN <<>>
    ELSE LET n == IF Len(sentences) < batch_size THEN Len(sentences) ELSE batch_size
         IN  << [X |-> SubSeq(sentences, 1, n), Y |-> [i \in 1 .. n |-> "label"]] >>
             \o BatchData(SubSeq(sentences, n + 1, Len(sentences)), batch_size)

\* the sentences of the global train data that the partition gives client idx
ClientSentences(sentences, idx, n_clients) ==
    LET Mine(i) == (i - 1) % n_clients = idx
        RECURSIVE Pick(_)
        Pick(i) == IF i > Len(sentences) THEN <<>>
                   ELSE (IF Mine(i) THEN <<sentences[i]>> ELSE <<>>) \o Pick(i + 1)
    IN  Pick(1)

\* the list load_data returns (main_fedavg.py lines 178-190) for given sentences
LoadedDataset(train, test) ==
    [train_data_global |-> BatchData(train, PreBatchSize),
     test_data_global |-> BatchData(test, PreBatchSize),
     train_data_local_dict |->
         [idx \in 0 .. PreClients - 1 |->
             BatchData(ClientSentences(train, idx, PreClients), PreBatchSize)],
     test_data_local_dict |->
         [idx \in 0 .. PreClients - 1 |-> BatchData(test, PreBatchSize)]]

MaxSeqLenChoices == {-1, 2}

EmbeddingNameChoices == {"", "fasttext"}

PreInit ==
    /\ pp_pc = "freq_vocab"
    /\ \E train \in SentenceLists(MaxTrainSentences), test \in SentenceLists(MaxTestSentences) :
           raw = LoadedDataset(train, test)
    /\ train_data_global = raw.train_data_global
    /\ test_data_global = raw.test_data_global
    /\ pp_train_data_local_dict = raw.train_data_local_dict
    /\ pp_test_data_local_dict = raw.test_data_local_dict
    /\ freq_vocab = <<>>
    /\ source_vocab = {}
    /\ vocab_x = <<>>
    /\ built_vocab = FALSE
    /\ cli_max_seq_len \in MaxSeqLenChoices
    /\ args_max_seq_len = cli_max_seq_len
    /\ args_do_remove_low_freq_words \in 0 .. MaxLowFreq
    /\ args_do_remove_stop_words \in BOOLEAN
    /\ args_embedding_name \in EmbeddingNameChoices
    /\ pp_result = <<>>
    /\ pp_error = "none"

preArgs == <<raw, cli_max_seq_len, args_do_remove_low_freq_words,
             args_do_remove_stop_words, args_embedding_name>>

\* x.extend(batch_data["X"]) over a list of batches (lines 205-209, 242-246)
RECURSIVE ExtendX(_)
ExtendX(batches) == IF batches = <<>> THEN <<>> ELSE Head(batches).X \o ExtendX(Tail(batches))

\* occurrences of token in one sentence
RECURSIVE CountIn(_, _)
CountIn(token, sentence) ==
    IF sentence = <<>> THEN 0
    ELSE (IF Head(sentence) = token THEN 1 ELSE 0) + CountIn(token, Tail(sentence))

RECURSIVE CountAll(_, _)
CountAll(token, x) == IF x = <<>> THEN 0 ELSE CountIn(token, Head(x)) + CountAll(token, Tail(x))

TokensOf(x) == UNION { {x[i][j] : j \in DOMAIN x[i]} : i \in DOMAIN x }

\* data_preprocessing.base.utils.build_freq_vocab: token -> number of occurrences
build_freq_vocab(x) == [token \in TokensOf(x) |-> CountAll(token, x)]

\* data_preprocessing.base.utils.remove_words: the sentences without the words
remove_words(x, word_set) ==
    LET Keep(token) == token \notin word_set
    IN  [i \in DOMAIN x |-> SelectSeq(x[i], Keep)]

\* lines 205-211
P_BuildFreqVocab ==
    /\ pp_pc = "freq_vocab"
    /\ freq_vocab' = build_freq_vocab(ExtendX(train_data_global) \o ExtendX(test_data_global))
    /\ pp_pc' = "low_freq"
    /\ UNCHANGED <<preArgs, train_data_global, test_data_global, pp_train_data_local_dict,
                   pp_test_data_local_dict, source_vocab, vocab_x, built_vocab,
                   args_max_seq_len, pp_result, pp_error>>
    /\ UNCHANGED otherThanPre

\* lines 214-218: one list of batches with the words removed
RemoveFromBatches(batches, word_set) ==
    [i \in DOMAIN batches |-> [batches[i] EXCEPT !.X = remove_words(batches[i].X, word_set)]]

\* lines 213-225: __remove_words, on the four data sets
RemoveWordsEverywhere(word_set) ==
    /\ train_data_global' = RemoveFromBatches(train_data_global, word_set)
    /\ test_data_global' = RemoveFromBatches(test_data_global, word_set)
    /\ pp_train_data_local_dict' =
           [client_index \in DOMAIN pp_train_data_local_dict |->
               RemoveFromBatches(pp_train_data_local_dict[client_index], word_set)]
    /\ pp_test_data_local_dict' =
           [client_index \in DOMAIN pp_train_data_local_dict |->
               RemoveFromBatches(pp_test_data_local_dict[client_index], word_set)]

LowFreqWordsStrict(vocab, threshold) == {token \in DOMAIN vocab : vocab[token] < threshold}

\* lines 230-233: low_freq_words
LowFreqWords(vocab, threshold) == {token \in DOMAIN vocab : vocab[token] <= threshold}

\* lines 227-235
P_RemoveLowFreq ==
    /\ pp_pc = "low_freq"
    /\ IF args_do_remove_low_freq_words > 0
       THEN RemoveWordsEverywhere(LowFreqWords(freq_vocab, args_do_remove_low_freq_words))
       ELSE UNCHANGED <<train_data_global, test_data_global, pp_train_data_local_dict,
                        pp_test_data_local_dict>>
    /\ pp_pc' = "stop_words"
    /\ UNCHANGED <<preArgs, freq_vocab, source_vocab, vocab_x, built_vocab,
                   args_max_seq_len, pp_result, pp_error>>
    /\ UNCHANGED otherThanPre

\* lines 237-239
P_RemoveStopWords ==
    /\ pp_pc = "stop_words"
    /\ IF args_do_remove_stop_words
       THEN RemoveWordsEverywhere(STOP_WORDS)
       ELSE UNCHANGED <<train_data_global, test_data_global, pp_train_data_local_dict,
                        pp_test_data_local_dict>>
    /\ pp_pc' = "vocab"
    /\ UNCHANGED <<preArgs, freq_vocab, source_vocab, vocab_x, built_vocab,
                   args_max_seq_len, pp_result, pp_error>>
    /\ UNCHANGED otherThanPre


PAD_TOKEN == "<PAD>"

UNK_TOKEN == "<UNK>"

\* data_preprocessing.base.utils.build_vocab: the tokens of x and the two
\* special tokens (the index given to each entry is left out)
build_vocab(x) == TokensOf(x) \cup {PAD_TOKEN, UNK_TOKEN}

VocabInputBeforeRemoval == ExtendX(raw.train_data_global) \o ExtendX(raw.test_data_global)

\* lines 241-247: x, the sentences of the global train and test batches
VocabInput == ExtendX(train_data_global) \o ExtendX(test_data_global)

\* lines 241-248
P_BuildVocab ==
    /\ pp_pc = "vocab"
    /\ vocab_x' = VocabInput
    /\ built_vocab' = TRUE
    /\ source_vocab' = build_vocab(VocabInput)
    /\ pp_pc' = "embedding"
    /\ UNCHANGED <<preArgs, train_data_global, test_data_global, pp_train_data_local_dict,
                   pp_test_data_local_dict, freq_vocab, args_max_seq_len, pp_result, pp_error>>
    /\ UNCHANGED otherThanPre

\* lines 250-262, for no embedding and for an embedding name the script does
\* not know (word2vec and glove read an embedding file)
P_LoadEmbedding ==
    /\ pp_pc = "embedding"
    /\ IF args_embedding_name = ""
       THEN pp_pc' = "max_seq_len" /\ pp_error' = pp_error
       ELSE pp_pc' = "raised" /\ pp_error' = "No such embedding"
    /\ UNCHANGED <<preArgs, train_data_global, test_data_global, pp_train_data_local_dict,
                   pp_test_data_local_dict, freq_vocab, source_vocab, vocab_x, built_vocab,
                   args_max_seq_len, pp_result>>
    /\ UNCHANGED otherThanPre

\* lines 265-267: lengths
Lengths(batches) == LET x == ExtendX(batches) IN [i \in DOMAIN x |-> Len(x[i])]

\* max() of a non-empty list of numbers
MaxOf(list) == CHOOSE v \in {list[i] : i \in DOMAIN list} :
                   \A i \in DOMAIN list : list[i] <= v

\* lines 264-268
P_MaxSeqLen ==
    /\ pp_pc = "max_seq_len"
    /\ IF args_max_seq_len = -1
       THEN IF Lengths(train_data_global) = <<>>
            THEN /\ pp_pc' = "raised"
                 /\ pp_error' = "ValueError"     \* max() arg is an empty sequence
                 /\ UNCHANGED args_max_seq_len
            ELSE /\ args_max_seq_len' = MaxOf(Lengths(train_data_global))
                 /\ pp_pc' = "padding"
                 /\ UNCHANGED pp_error
       ELSE /\ pp_pc' = "padding"
            /\ UNCHANGED <<args_max_seq_len, pp_error>>
    /\ UNCHANGED <<preArgs, train_data_global, test_data_global, pp_train_data_local_dict,
                   pp_test_data_local_dict, freq_vocab, source_vocab, vocab_x, built_vocab,
                   pp_result>>
    /\ UNCHANGED otherThanPre

MinOf2(a, b) == IF a < b THEN a ELSE b

\* data_preprocessing.base.utils.padding_data: every sentence cut or filled
\* with the padding token to max_seq_len, and the lengths before filling
padding_data(x, max_seq_len) ==
    [padding_x |->
        [i \in DOMAIN x |->
            IF Len(x[i]) >= max_seq_len
            THEN SubSeq(x[i], 1, max_seq_len)
            ELSE x[i] \o [j \in 1 .. max_seq_len - Len(x[i]) |-> PAD_TOKEN]],
     seq_lens |-> [i \in DOMAIN x |-> MinOf2(Len(x[i]), max_seq_len)]]

\* data_preprocessing.base.utils.token_to_idx: a token of the vocabulary maps
\* to its own entry, any other token to the entry of the unknown token
token_to_idx(x, vocab) ==
    [i \in DOMAIN x |->
        [j \in DOMAIN x[i] |-> IF x[i][j] \in vocab THEN x[i][j] ELSE UNK_TOKEN]]

\* lines 277-281: one padded and indexed batch
NewBatch(batch_data) ==
    LET padded == padding_data(batch_data.X, args_max_seq_len)
    IN  [X |-> token_to_idx(padded.padding_x, source_vocab),
         Y |-> batch_data.Y,
         seq_lens |-> padded.seq_lens]

NewBatches(batches) == [i \in DOMAIN batches |-> NewBatch(batches[i])]

\* lines 270-313
P_PadAndReturn ==
    /\ pp_pc = "padding"
    /\ pp_result' =
           [train_data_global |-> NewBatches(train_data_global),
            test_data_global |-> NewBatches(test_data_global),
            train_data_local_dict |->
                [client_index \in DOMAIN pp_train_data_local_dict |->
                    NewBatches(pp_train_data_local_dict[client_index])],
            test_data_local_dict |->
                [client_index \in DOMAIN pp_train_data_local_dict |->
                    NewBatches(pp_test_data_local_dict[client_index])]]
    /\ pp_pc' = "returned"
    /\ UNCHANGED <<preArgs, train_data_global, test_data_global, pp_train_data_local_dict,
                   pp_test_data_local_dict, freq_vocab, source_vocab, vocab_x, built_vocab,
                   args_max_seq_len, pp_error>>
    /\ UNCHANGED otherThanPre

PreNext ==
    \/ P_BuildFreqVocab
    \/ P_RemoveLowFreq
    \/ P_RemoveStopWords
    \/ P_BuildVocab
    \/ P_LoadEmbedding
    \/ P_MaxSeqLen
    \/ P_PadAndReturn

InitPre == PreInit /\ TrainOff /\ EvalOff /\ MainOff /\ ArgsOff

SpecPre == InitPre /\ [][PreNext]_vars


-----------------------------------------------------------------------------
(* Properties of preprocess_data                                           *)

\* the four data sets as preprocess_data holds them at this point
CurrentData ==
    [train_data_global |-> train_data_global,
     test_data_global |-> test_data_global,
     train_data_local_dict |-> pp_train_data_local_dict,
     test_data_local_dict |-> pp_test_data_local_dict]

\* every sentence of the four data sets
AllSentences(data) ==
    {ExtendX(data.train_data_global)[i] : i \in DOMAIN ExtendX(data.train_data_global)}
    \cup {ExtendX(data.test_data_global)[i] : i \in DOMAIN ExtendX(data.test_data_global)}
    \cup UNION { {ExtendX(data.train_data_local_dict[c])[i] :
                     i \in DOMAIN ExtendX(data.train_data_local_dict[c])} :
                 c \in DOMAIN data.train_data_local_dict }
    \cup UNION { {ExtendX(data.test_data_local_dict[c])[i] :
                     i \in DOMAIN ExtendX(data.test_data_local_dict[c])} :
                 c \in DOMAIN data.test_data_local_dict }

\* C6: when --max_seq_len is -1, once preprocess_data has set args.max_seq_len
\* (line 268) no sequence of the global train batches, the global test batches
\* or any client's train or test batches is longer than args.max_seq_len, the
\* length the padding that follows uses
C6_MaxSeqLenCoversDataset ==
    (pp_pc = "padding" /\ cli_max_seq_len = -1)
        => \A sentence \in AllSentences(CurrentData) : Len(sentence) <= args_max_seq_len

\* the sentences of the data as load_data returned it, train then test
RawX == ExtendX(raw.train_data_global) \o ExtendX(raw.test_data_global)

\* the tokens the claim says the low-frequency removal takes out
C7_LowFrequencyTokens ==
    IF args_do_remove_low_freq_words > 0
    THEN {token \in TokensOf(RawX) : CountAll(token, RawX) <= args_do_remove_low_freq_words}
    ELSE {}

\* the tokens the claim says the stop-word removal takes out
C7_StopTokens == IF args_do_remove_stop_words THEN STOP_WORDS ELSE {}

StripSentence(sentence, tokens) ==
    LET Stays(token) == token \notin tokens IN SelectSeq(sentence, Stays)

StripBatches(batches, tokens) ==
    [i \in DOMAIN batches |->
        [X |-> [j \in DOMAIN batches[i].X |-> StripSentence(batches[i].X[j], tokens)],
         Y |-> batches[i].Y]]

\* the four data sets of load_data with exactly the given tokens taken out
Stripped(tokens) ==
    [train_data_global |-> StripBatches(raw.train_data_global, tokens),
     test_data_global |-> StripBatches(raw.test_data_global, tokens),
     train_data_local_dict |->
         [c \in DOMAIN raw.train_data_local_dict |->
             StripBatches(raw.train_data_local_dict[c], tokens)],
     test_data_local_dict |->
         [c \in DOMAIN raw.test_data_local_dict |->
             StripBatches(raw.test_data_local_dict[c], tokens)]]

\* C7: with --do_remove_low_freq_words = k > 0 the four data sets lose exactly
\* the tokens whose frequency over the global train and test data is <= k,
\* with k <= 0 they lose none; before that step nothing is removed; the stop
\* words are removed from the same four data sets if and only if
\* --do_remove_stop_words is true, and only after the low-frequency removal
C7_WordRemoval ==
    /\ pp_pc \in {"freq_vocab", "low_freq"} => CurrentData = raw
    /\ pp_pc = "stop_words" => CurrentData = Stripped(C7_LowFrequencyTokens)
    /\ pp_pc \in {"vocab", "embedding", "max_seq_len", "padding", "returned", "raised"}
           => CurrentData = Stripped(C7_LowFrequencyTokens \cup C7_StopTokens)

\* both removals have run and each took something out that the other did not,
\* and a token is left
C7_Witness ==
    /\ pp_pc = "vocab"
    /\ args_do_remove_low_freq_words > 0
    /\ args_do_remove_stop_words
    /\ C7_LowFrequencyTokens # {}
    /\ \E token \in STOP_WORDS : token \in TokensOf(RawX) /\ token \notin C7_LowFrequencyTokens
    /\ \E token \in TokensOf(RawX) :
           /\ CountAll(token, RawX) = args_do_remove_low_freq_words
           /\ token \notin STOP_WORDS
    /\ TokensOf(ExtendX(train_data_global)) # {}
    /\ CurrentData # raw


-----------------------------------------------------------------------------
(* add_args: the boolean options of the four entry points                  *)

TransformerScripts ==
    {"text_classification", "question_answering", "text_classification_fedavg"}

BilstmScript == "bilstm_main_fedavg"

Scripts == TransformerScripts \cup {BilstmScript}

\* the option each model follows: --do_lower_case in the transformer
\* scripts, --do_remove_stop_words in the BiLSTM script
OptionOf(s) == IF s \in TransformerScripts THEN "--do_lower_case" ELSE "--do_remove_stop_words"

\* a command-line string is the sequence of its characters
StrTrue == <<"T", "r", "u", "e">>

StrFalse == <<"F", "a", "l", "s", "e">>

ArgvValues ==
    { StrTrue, StrFalse,
      <<"t", "r", "u", "e">>, <<"f", "a", "l", "s", "e">>,
      <<"T", "R", "U", "E">>, <<"F", "A", "L", "S", "E">>,
      <<"t", "R", "u", "E">>,
      <<"0">>, <<"1">>, <<"T">>, <<"F">>,
      <<"y", "e", "s">>, <<"n", "o">>,
      <<>> }

\* str.lower() on one character
LowerChar(c) ==
    CASE c = "T" -> "t"
      [] c = "R" -> "r"
      [] c = "U" -> "u"
      [] c = "E" -> "e"
      [] c = "F" -> "f"
      [] c = "A" -> "a"
      [] c = "L" -> "l"
      [] c = "S" -> "s"
      [] OTHER -> c

\* str.lower()
Lower(str) == [i \in DOMAIN str |-> LowerChar(str[i])]

\* bool(x) of a str: an empty string is False, any other string is True
PyBoolOfStr(str) == Len(str) > 0

\* type=bool (text_classification.py 59, question_answering.py 57,
\* text_classification_fedavg.py 63)
TypeBool(x) == PyBoolOfStr(x)

\* type=lambda x: (str(x).lower() == 'true') (main_fedavg.py 113)
TypeLambda(x) == Lower(x) = <<"t", "r", "u", "e">>

\* the type= callable of the script's option
TypeOf(s) == IF s \in TransformerScripts THEN "bool" ELSE "lambda"

Convert(s, x) == IF TypeOf(s) = "bool" THEN TypeBool(x) ELSE TypeLambda(x)

\* default= of the script's option
DefaultOf(s) ==
    CASE s = "text_classification" -> TRUE
      [] s = "question_answering" -> FALSE
      [] s = "text_classification_fedavg" -> TRUE
      [] s = BilstmScript -> FALSE

ArgsInit ==
    /\ script \in Scripts
    /\ argv \in UNION { [1 .. n -> ArgvValues] : n \in 0 .. MaxArgv }
    /\ parse_pc = "parsing"
    /\ argv_idx = 1
    /\ args_flag = DefaultOf(script)
    /\ used_flag = [set |-> FALSE, value |-> FALSE]

\* parse_args reads one occurrence of the option: the type callable turns
\* the string into the value stored in the namespace (a later occurrence
\* overwrites an earlier one)
A_ParseOption ==
    /\ parse_pc = "parsing"
    /\ argv_idx <= Len(argv)
    /\ args_flag' = Convert(script, argv[argv_idx])
    /\ argv_idx' = argv_idx + 1
    /\ UNCHANGED <<script, argv, parse_pc, used_flag>>
    /\ UNCHANGED otherThanArgs

\* parse_args returns the namespace
A_ParseReturn ==
    /\ parse_pc = "parsing"
    /\ argv_idx > Len(argv)
    /\ parse_pc' = "parsed"
    /\ UNCHANGED <<script, argv, argv_idx, args_flag, used_flag>>
    /\ UNCHANGED otherThanArgs

\* main hands the value on: "do_lower_case": args.do_lower_case in the model
\* args (text_classification.py 143, question_answering.py 121,
\* text_classification_fedavg.py 215); args.do_remove_stop_words in
\* preprocess_data (main_fedavg.py 237)
A_UseFlag ==
    /\ parse_pc = "parsed"
    /\ used_flag' = [set |-> TRUE, value |-> args_flag]
    /\ parse_pc' = "used"
    /\ UNCHANGED <<script, argv, argv_idx, args_flag>>
    /\ UNCHANGED otherThanArgs

ArgsNext ==
    \/ A_ParseOption
    \/ A_ParseReturn
    \/ A_UseFlag

InitArgs == ArgsInit /\ TrainOff /\ EvalOff /\ MainOff /\ PreOff

SpecArgs == InitArgs /\ [][ArgsNext]_vars

\* the string the command line gives the option last
LastValue == argv[Len(argv)]

\* C9: in the three transformer entry points the parsed --do_lower_case is
\* True when the command line supplies 'True' and False when it supplies
\* 'False', the way --do_remove_stop_words is parsed in the BiLSTM entry point
C9_DoLowerCaseParsedAsBoolean ==
    (script \in TransformerScripts /\ parse_pc \in {"parsed", "used"} /\ argv # <<>>)
        => /\ LastValue = StrTrue => args_flag = TRUE
           /\ LastValue = StrFalse => args_flag = FALSE


-----------------------------------------------------------------------------
(* Further properties of SpanExtractionTrainer.train_model                 *)

\* C11: every optimizer step applies gradients accumulated from exactly
\* args.gradient_accumulation_steps batches, and the gradient of every
\* processed batch has gone into an optimizer step when train_model reaches
\* its return, also when len(train_dl) is not a multiple of
\* gradient_accumulation_steps and num_train_epochs > 1
C11_StepOverExactlyAccumulationSteps ==
    /\ pc = "optimizer_step" => accum = args_gradient_accumulation_steps
    /\ pc \in {"return", "returned"} => accum = 0

\* C12: with evaluate_during_training set and evaluate_during_training_steps
\* = s > 0, eval_model is called once for each global_step that is a positive
\* multiple of s: never while global_step is 0, never twice for one value of
\* global_step, and for every positive multiple of s reached by the return
C12_EvalOncePerPositiveMultiple ==
    (args_evaluate_during_training /\ args_evaluate_during_training_steps > 0) =>
        /\ \A i \in DOMAIN eval_log : eval_log[i] > 0
        /\ \A i, j \in DOMAIN eval_log : i # j => eval_log[i] # eval_log[j]
        /\ pc \in {"return", "returned"} =>
               \A step \in 1 .. global_step :
                   step % args_evaluate_during_training_steps = 0
                       => \E i \in DOMAIN eval_log : eval_log[i] = step


\* num_train_epochs * floor(len(train_dl) / gradient_accumulation_steps)
EpochsTimesStepsPerEpoch ==
    args_num_train_epochs * (train_dl_len \div args_gradient_accumulation_steps)

\* the return statement of line 213 divided by zero
DividedByZero == pc = "raised" /\ error = "ZeroDivisionError"

\* C13: train_model returns (global_step, tr_loss / global_step) without
\* error if and only if num_train_epochs * floor(len(train_dl) /
\* gradient_accumulation_steps) >= 1; otherwise global_step is 0 when the
\* return is reached and the division raises ZeroDivisionError, after every
\* batch of every epoch has been processed
C13_ReturnOrZeroDivision ==
    /\ pc = "return" =>
           /\ (global_step = 0) <=> (EpochsTimesStepsPerEpoch = 0)
           /\ forward_calls = args_num_train_epochs * train_dl_len
           /\ backward_calls = forward_calls
    /\ pc = "returned" =>
           /\ EpochsTimesStepsPerEpoch >= 1
           /\ global_step >= 1
           /\ error = "none"
    /\ DividedByZero =>
           /\ EpochsTimesStepsPerEpoch = 0
           /\ global_step = 0
           /\ forward_calls = args_num_train_epochs * train_dl_len
           /\ backward_calls = forward_calls

\* the division by zero after batches have been processed in two epochs
C13_Witness ==
    /\ DividedByZero
    /\ args_num_train_epochs = 2
    /\ train_dl_len > 0
    /\ forward_calls = 2 * train_dl_len

\* C14: on return from train_model the number of optimizer steps, global_step
\* and the number of scheduler.step calls all equal iteration_in_total =
\* floor(len(train_dl) / gradient_accumulation_steps) * num_train_epochs, the
\* num_training_steps given to the scheduler; the scheduler is never stepped
\* more than num_training_steps times
C14_StepsEqualIterationInTotal ==
    /\ (pc \in {"return", "returned"} \/ DividedByZero) =>
           /\ scheduler.built
           /\ scheduler.num_training_steps =
                  (train_dl_len \div args_gradient_accumulation_steps) * args_num_train_epochs
           /\ global_step = scheduler.num_training_steps
           /\ opt_steps = global_step
           /\ sched_steps = global_step
    /\ scheduler.built => sched_steps <= scheduler.num_training_steps

\* a return after two epochs whose length is no multiple of the accumulation
\* steps
C14_Witness ==
    /\ pc = "returned"
    /\ args_num_train_epochs = 2
    /\ train_dl_len % args_gradient_accumulation_steps # 0
    /\ sched_steps = 2


-----------------------------------------------------------------------------
(* The source vocabulary of preprocess_data                                *)

\* the tokens either removal takes out
RemovedTokens == C7_LowFrequencyTokens \cup C7_StopTokens

\* the sentences of the global train and test batches after both removals
RemainingX ==
    ExtendX(Stripped(RemovedTokens).train_data_global)
        \o ExtendX(Stripped(RemovedTokens).test_data_global)

\* C15: build_vocab is called only after the low-frequency and the stop-word
\* removal, with the sentences of the global train and global test batches as
\* they are after removal: no removed token is given to it, every token left
\* in a global train or test batch is given to it, and no batch is converted
\* to indices before it has been called
C15_VocabAfterRemoval ==
    /\ built_vocab <=> pp_pc \in {"embedding", "max_seq_len", "padding", "returned", "raised"}
    /\ ~built_vocab => (vocab_x = <<>> /\ source_vocab = {})
    /\ built_vocab =>
           /\ vocab_x = RemainingX
           /\ TokensOf(vocab_x) \cap RemovedTokens = {}
           /\ TokensOf(ExtendX(train_data_global)) \subseteq TokensOf(vocab_x)
           /\ TokensOf(ExtendX(test_data_global)) \subseteq TokensOf(vocab_x)
    /\ pp_result # <<>> => built_vocab

\* the batches have been converted after a removal that took a token of the
\* data out and left another in
C15_Witness ==
    /\ pp_pc = "returned"
    /\ pp_result # <<>>
    /\ TokensOf(RawX) \cap RemovedTokens # {}
    /\ TokensOf(vocab_x) # {}
    /\ args_do_remove_stop_words
    /\ args_do_remove_low_freq_words > 0

=============================================================================
